---- MODULE Spec2Model ----
(***************************************************************************)
(* Model of workout_api/centro_treinamento/controller.py: the five request *)
(* handlers of the "Centro de Treinamento" resource (post, query, get,     *)
(* patch, delete) running against one relational table.                    *)
(*                                                                         *)
(* Every request owns one session.  A handler is cut into steps at the     *)
(* points where it awaits the session (execute, paginate, commit); the     *)
(* steps of different requests interleave freely.  A commit is one atomic  *)
(* step of the store: the flush of the session's pending changes followed  *)
(* by the transaction commit.                                              *)
(***************************************************************************)
EXTENDS Integers, FiniteSets, Sequences, TLC

\* ---------------------------------------------------------------- bounds
MaxId     == 2      \* number of identifiers uuid4() can hand out
MaxLimit  == 2      \* largest page size a request asks for
MaxOffset == 1      \* largest page offset a request asks for

\* ------------------------------------------------------------ value sets
Reqs   == {"r1", "r2"}                 \* requests in flight at the same time
Ids    == 1 .. MaxId                   \* ids a client may ask for
Names  == {"CT King", "CT Queen"}      \* values of nome
Addrs  == {"Rua A", "Rua B"}           \* values of endereco
Fields == {"nome", "endereco"}         \* mutable columns of the record

\* HTTP status codes used by the router
HTTP_200_OK            == 200
HTTP_201_CREATED       == 201
HTTP_204_NO_CONTENT    == 204
HTTP_303_SEE_OTHER     == 303
HTTP_404_NOT_FOUND     == 404

VARIABLES
    db,        \* the table: a set of rows [id, nome, endereco]
    issued,    \* how many identifiers uuid4() has produced so far
    req,       \* per request in flight: operation, arguments, position, session
    resp       \* the response the last step sent: [r, op, status, items, total]

vars == <<db, issued, req, resp>>

\* ----------------------------------------------------------- the schemas
FieldVals(k) == IF k = "nome" THEN Names ELSE Addrs

\* CentroTreinamentoIn: nome and endereco are both required
CentroTreinamentoIn == [nome : Names, endereco : Addrs]

\* CentroTreinamentoUpdate dumped with exclude_unset: any subset of the fields
CentroTreinamentoUpdate ==
    UNION { { f \in [D -> Names \cup Addrs] : \A k \in D : f[k] \in FieldVals(k) }
            : D \in SUBSET Fields }

\* CentroTreinamentoOut / CentroTreinamentoModel: a full row
Row(i, n, e) == [id |-> i, nome |-> n, endereco |-> e]

Col(row, k) == IF k = "nome" THEN row.nome ELSE row.endereco

\* Optional[str] query parameter: {} is None, {s} is the string s
NomeFilters == {{}} \cup { {s} : s \in Names \cup {""} }


\* ------------------------------------------------------------- the store
\* the unique constraint on nome: no two rows of a table share a nome
UniqueNome(table) ==
    \A a, b \in table : a.nome = b.nome => a = b

\* the primary key: no two rows share an id
PrimaryKey(table) ==
    \A a, b \in table : a.id = b.id => a = b

\* the store raises IntegrityError for a table that breaks a constraint
IntegrityError(table) == ~ (UniqueNome(table) /\ PrimaryKey(table))

\* select(CentroTreinamentoModel).filter_by(id=id) ... .scalars().first():
\* the set holding the row, or {} for None
SelectById(table, id) == { row \in table : row.id = id }

\* ------------------------------------------------------------ the state
NoUpdate == [k \in {} |-> ""]

Idle ==
    [op |-> "idle", pc |-> "idle", id |-> 1,
     ct_in |-> [nome |-> "CT King", endereco |-> "Rua A"],
     ct_up |-> NoUpdate, ct |-> {}]

NoResponse ==
    [r |-> "r1", op |-> "idle", status |-> 0, items |-> {}, total |-> 0]

Response(r, op, status, items, total) ==
    [r |-> r, op |-> op, status |-> status, items |-> items, total |-> total]

Init ==
    /\ db = {}
    /\ issued = 0
    /\ req = [r \in Reqs |-> Idle]
    /\ resp = NoResponse

\* number of post requests that have not yet drawn their identifier
PostsInFlight == Cardinality({ r \in Reqs : req[r].op = "post" })

\* ------------------------------------------------------------- dispatch
\* the router hands a validated create payload to post, which runs up to
\* its commit
ReceivePost(r, ct_in) ==
    /\ req[r].pc = "idle"
    /\ issued + PostsInFlight < MaxId
    /\ req' = [req EXCEPT ![r] = [Idle EXCEPT !.op = "post", !.pc = "commit",
                                              !.ct_in = ct_in]]
    /\ resp' = NoResponse
    /\ UNCHANGED <<db, issued>>

\* ----------------------------------------------------------------- post
\* mutant of uuid4: the identifier is a constant instead of a fresh one
uuid4Const == 1

\* uuid4(): an identifier no earlier call has returned
uuid4 == issued + 1

\* mutant of post: a colliding record replaces the stored one (an upsert)
postUpsert(table, ct_out) ==
    LET kept == { row \in table : row.nome # ct_out.nome /\ row.id # ct_out.id }
    IN  [db |-> kept \cup {ct_out}, status |-> HTTP_201_CREATED,
         items |-> {ct_out}]

\* mutant of post: no except branch, the IntegrityError is not caught
postNoExcept(table, ct_out) ==
    IF IntegrityError(table \cup {ct_out})
    THEN [db |-> table, status |-> 500, items |-> {}]
    ELSE [db |-> table \cup {ct_out}, status |-> HTTP_201_CREATED,
          items |-> {ct_out}]

\* db_session.add(ct_model); await db_session.commit(), with the handler's
\* except IntegrityError branch: the outcome as [db, status, items]
post(table, ct_out) ==
    IF IntegrityError(table \cup {ct_out})
    THEN [db |-> table, status |-> HTTP_303_SEE_OTHER, items |-> {}]
    ELSE [db |-> table \cup {ct_out}, status |-> HTTP_201_CREATED,
          items |-> {ct_out}]

Post(r) ==
    /\ req[r].op = "post" /\ req[r].pc = "commit"
    /\ LET ct_out == Row(uuid4, req[r].ct_in.nome, req[r].ct_in.endereco)
           out    == post(db, ct_out)
       IN  /\ db' = out.db
           /\ resp' = Response(r, "post", out.status, out.items, 0)
    /\ issued' = issued + 1
    /\ req' = [req EXCEPT ![r] = Idle]

\* ---------------------------------------------------------------- query
\* Python truthiness of an Optional[str]: None and "" are both false
Truthy(nome) == nome # {} /\ nome # {""}

\* select(CentroTreinamentoModel), filtered on nome when nome is truthy
query(table, nome) ==
    IF Truthy(nome) THEN { row \in table : {row.nome} = nome } ELSE table

Min(a, b) == IF a < b THEN a ELSE b
Max(a, b) == IF a < b THEN b ELSE a

\* paginate(db_session, query): the pages a limit/offset slice of the
\* selected rows can be; the select has no ORDER BY, so any order is possible
paginate(rows, limit, offset) ==
    { page \in SUBSET rows :
        Cardinality(page) = Min(limit, Max(Cardinality(rows) - offset, 0)) }

Query(r, nome, limit, offset) ==
    /\ req[r].pc = "idle"
    /\ LET rows == query(db, nome)
       IN  \E page \in paginate(rows, limit, offset) :
              resp' = Response(r, "query", HTTP_200_OK, page, Cardinality(rows))
    /\ UNCHANGED <<db, issued, req>>

\* ------------------------------------------------------------------ get
\* mutant of get: the "if not ct" check is missing
getUnchecked(table, id) ==
    [status |-> HTTP_200_OK, items |-> SelectById(table, id)]

get(table, id) ==
    LET ct == SelectById(table, id)
    IN  IF ct = {}
        THEN [status |-> HTTP_404_NOT_FOUND, items |-> {}]
        ELSE [status |-> HTTP_200_OK, items |-> ct]

Get(r, id) ==
    /\ req[r].pc = "idle"
    /\ LET out == get(db, id)
       IN  resp' = Response(r, "get", out.status, out.items, 0)
    /\ UNCHANGED <<db, issued, req>>

\* ---------------------------------------------------------------- patch
\* await db_session.execute(select(...).filter_by(id=id)); if not ct: 404
PatchLookup(r, id, ct_up) ==
    /\ req[r].pc = "idle"
    /\ LET ct == SelectById(db, id)
       IN  IF ct = {}
           THEN /\ resp' = Response(r, "patch", HTTP_404_NOT_FOUND, {}, 0)
                /\ UNCHANGED req
           ELSE /\ req' = [req EXCEPT ![r] = [Idle EXCEPT !.op = "patch",
                                  !.pc = "commit", !.id = id, !.ct_up = ct_up,
                                  !.ct = ct]]
                /\ resp' = NoResponse
    /\ UNCHANGED <<db, issued>>

\* for key, value in ct_update.items(): setattr(ct, key, value)
\* the columns whose value differs from the loaded one are the pending
\* changes of the session; a column set to the value it was loaded with
\* is no net change and is not written
setattr(ct, ct_update) ==
    { k \in DOMAIN ct_update : ct_update[k] # Col(ct, k) }

\* the row an UPDATE of the changed columns turns a stored row into
Updated(row, ct_update, changed) ==
    Row(row.id,
        IF "nome" \in changed THEN ct_update["nome"] ELSE row.nome,
        IF "endereco" \in changed THEN ct_update["endereco"] ELSE row.endereco)

\* mutant of patch: the changes are stored without the constraint check
patchUnchecked(table, ct, ct_update) ==
    LET changed == setattr(ct, ct_update)
        stored  == SelectById(table, ct.id)
    IN  IF stored = {}
        THEN [db |-> table, status |-> 500, items |-> {}]
        ELSE LET row == CHOOSE x \in stored : TRUE
                 new == Updated(row, ct_update, changed)
             IN  [db |-> (table \ {row}) \cup {new}, status |-> HTTP_200_OK,
                  items |-> {new}]

\* mutant of patch: the loaded record is written back whole (a merge), so
\* a record deleted since the lookup is stored again
patchMerge(table, ct, ct_update) ==
    LET new     == Updated(ct, ct_update, DOMAIN ct_update)
        flushed == (table \ SelectById(table, ct.id)) \cup {new}
    IN  IF IntegrityError(flushed)
        THEN [db |-> table, status |-> HTTP_303_SEE_OTHER, items |-> {}]
        ELSE [db |-> flushed, status |-> HTTP_200_OK, items |-> {new}]

\* await db_session.commit(); await db_session.refresh(ct), with the
\* handler's except IntegrityError branch: the outcome as [db, status, items].
\* The flush updates the changed columns of the row whose id is ct.id.
\* A row that is gone makes the flush (no row matched) or the refresh (no
\* row to load) raise an error the handler does not catch: status 500.
patch(table, ct, ct_update) ==
    LET changed == setattr(ct, ct_update)
        stored  == SelectById(table, ct.id)
    IN  IF stored = {}
        THEN [db |-> table, status |-> 500, items |-> {}]
        ELSE LET row      == CHOOSE x \in stored : TRUE
                 new      == Updated(row, ct_update, changed)
                 flushed  == (table \ {row}) \cup {new}
             IN  IF changed # {} /\ IntegrityError(flushed)
                 THEN [db |-> table, status |-> HTTP_303_SEE_OTHER, items |-> {}]
                 ELSE [db |-> flushed, status |-> HTTP_200_OK, items |-> {new}]

PatchCommit(r) ==
    /\ req[r].op = "patch" /\ req[r].pc = "commit"
    /\ LET ct  == CHOOSE x \in req[r].ct : TRUE
           out == patch(db, ct, req[r].ct_up)
       IN  /\ db' = out.db
           /\ resp' = Response(r, "patch", out.status, out.items, 0)
    /\ req' = [req EXCEPT ![r] = Idle]
    /\ UNCHANGED issued

\* --------------------------------------------------------------- delete
\* await db_session.execute(select(...).filter_by(id=id)); if not ct: 404
DeleteLookup(r, id) ==
    /\ req[r].pc = "idle"
    /\ LET ct == SelectById(db, id)
       IN  IF ct = {}
           THEN /\ resp' = Response(r, "delete", HTTP_404_NOT_FOUND, {}, 0)
                /\ UNCHANGED req
           ELSE /\ req' = [req EXCEPT ![r] = [Idle EXCEPT !.op = "delete",
                                  !.pc = "commit", !.id = id, !.ct = ct]]
                /\ resp' = NoResponse
    /\ UNCHANGED <<db, issued>>

\* mutant of delete: the DELETE has no WHERE clause
deleteAll(table, ct) == {}

\* await db_session.delete(ct); await db_session.commit(): the table after
\* the DELETE of the row whose id is ct.id
delete(table, ct) == table \ SelectById(table, ct.id)

\* the statuses the commit of a delete can end with: 204, and when the row
\* was already gone the unmatched DELETE is a warning (204) or an uncaught
\* error (500), depending on the mapper configuration
DeleteStatus(table, ct) ==
    IF SelectById(table, ct.id) = {} THEN {HTTP_204_NO_CONTENT, 500}
    ELSE {HTTP_204_NO_CONTENT}

DeleteCommit(r) ==
    /\ req[r].op = "delete" /\ req[r].pc = "commit"
    /\ LET ct == CHOOSE x \in req[r].ct : TRUE
       IN  /\ db' = delete(db, ct)
           /\ \E st \in DeleteStatus(db, ct) :
                 resp' = Response(r, "delete", st, {}, 0)
    /\ req' = [req EXCEPT ![r] = Idle]
    /\ UNCHANGED issued

\* ------------------------------------------------------------------ next
Next ==
    \E r \in Reqs :
        \/ \E ct_in \in CentroTreinamentoIn : ReceivePost(r, ct_in)
        \/ Post(r)
        \/ \E nome \in NomeFilters, limit \in 1 .. MaxLimit, offset \in 0 .. MaxOffset :
              Query(r, nome, limit, offset)
        \/ \E id \in Ids : Get(r, id)
        \/ \E id \in Ids, ct_up \in CentroTreinamentoUpdate : PatchLookup(r, id, ct_up)
        \/ PatchCommit(r)
        \/ \E id \in Ids : DeleteLookup(r, id)
        \/ DeleteCommit(r)

Spec == Init /\ [][Next]_vars

TypeOK ==
    /\ db \subseteq [id : Ids, nome : Names, endereco : Addrs]
    /\ issued \in 0 .. MaxId
    /\ \A r \in Reqs : Cardinality(req[r].ct) <= 1

\* ------------------------------------------------------------ properties
Absent(table, id)  == SelectById(table, id) = {}
Present(table, id) == SelectById(table, id) # {}

\* the row of a table stored under an id that is present
RowOf(table, id) == CHOOSE row \in table : row.id = id

NomeUsed(table, nome) == \E row \in table : row.nome = nome

\* the nome the commit of a request in flight is about to write, as a set:
\* a post writes the nome of its payload, a patch the nome it changed
Pending(r) ==
    IF req[r].pc # "commit" THEN {}
    ELSE IF req[r].op = "post" THEN {req[r].ct_in.nome}
    ELSE IF req[r].op = "patch"
         THEN LET ct == CHOOSE x \in req[r].ct : TRUE
              IN  IF "nome" \in setattr(ct, req[r].ct_up)
                  THEN {req[r].ct_up["nome"]} ELSE {}
    ELSE {}

\* the commit step of a writer
Commit(r) == Post(r) \/ PatchCommit(r)

\* the status the commit of request r ends with on a given table
CommitStatus(r, table) ==
    IF req[r].op = "post"
    THEN post(table, Row(MaxId + 1, req[r].ct_in.nome, req[r].ct_in.endereco)).status
    ELSE patch(table, CHOOSE x \in req[r].ct : TRUE, req[r].ct_up).status

Success == {HTTP_200_OK, HTTP_201_CREATED}

\* C1: in every reachable state no two stored records have the same nome,
\* and a commit that is about to write a nome another stored record has
\* does not succeed and leaves every stored record as it was; it answers
\* 303 when the record it writes to is stored.
C1_UniqueNome ==
    /\ [](UniqueNome(db))
    /\ [][\A r \in Reqs : \A n \in Pending(r) :
            (Commit(r) /\ (\E row \in db : row.nome = n /\
                              (req[r].op = "patch" => row.id # req[r].id)))
            => /\ resp'.status \notin Success
               /\ db' = db
               /\ (req[r].op = "patch" => Present(db, req[r].id))
                     => resp'.status = HTTP_303_SEE_OTHER]_vars

\* C1 witness: a colliding write was refused while two records are stored
C1_Witness ==
    /\ resp.status = HTTP_303_SEE_OTHER
    /\ Cardinality(db) = 2

\* C2: a Create whose nome is the nome of a stored record answers 303 and
\* the table after it is the table before it.
C2_CreateDuplicate ==
    [][\A r \in Reqs :
         (Post(r) /\ NomeUsed(db, req[r].ct_in.nome))
         => (resp'.op = "post" /\ resp'.status = HTTP_303_SEE_OTHER /\
             resp'.items = {} /\ db' = db)]_vars

\* C2 witness: a post was answered 303 while a record is stored
C2_Witness ==
    /\ resp.op = "post" /\ resp.status = HTTP_303_SEE_OTHER
    /\ db # {}

\* C3: for an id with no stored record, Get, Patch (whatever its payload)
\* and Delete answer 404 and leave the table as it was.
C3_NotFound ==
    [][\A r \in Reqs : \A id \in Ids :
         Absent(db, id) =>
            /\ Get(r, id) => (resp'.op = "get" /\
                              resp'.status = HTTP_404_NOT_FOUND /\ db' = db)
            /\ \A ct_up \in CentroTreinamentoUpdate :
                 PatchLookup(r, id, ct_up) =>
                    (resp'.op = "patch" /\ resp'.status = HTTP_404_NOT_FOUND /\
                     db' = db /\ req'[r].pc = "idle")
            /\ DeleteLookup(r, id) =>
                    (resp'.op = "delete" /\ resp'.status = HTTP_404_NOT_FOUND /\
                     db' = db /\ req'[r].pc = "idle")]_vars

\* C3 witness: a patch was answered 404 while another record is stored
C3_Witness ==
    /\ resp.op = "patch" /\ resp.status = HTTP_404_NOT_FOUND
    /\ db # {}

\* C4 (as claimed): a Patch answered 200 leaves the record with every field
\* of the payload at the supplied value, every other field and the id at
\* the stored value, and every other record unchanged.
C4_PatchExactlyPayload ==
    [][\A r \in Reqs :
         (PatchCommit(r) /\ resp'.status = HTTP_200_OK) =>
            LET id  == req[r].id
                up  == req[r].ct_up
                old == RowOf(db, id)
                new == RowOf(db', id)
            IN  /\ Present(db', id)
                /\ \A k \in Fields :
                      Col(new, k) = IF k \in DOMAIN up THEN up[k] ELSE Col(old, k)
                /\ db' \ {new} = db \ {old}
                /\ resp'.items = {new}]_vars

\* C5: a Create whose nome no stored record uses answers 201 with a record
\* whose id no stored record has and whose nome and endereco are the
\* payload's, and a Get of that id on the resulting table returns it.
C5_CreateThenGet ==
    [][\A r \in Reqs :
         (Post(r) /\ ~ NomeUsed(db, req[r].ct_in.nome)) =>
            /\ resp'.op = "post" /\ resp'.status = HTTP_201_CREATED
            /\ \E ct_out \in resp'.items :
                  /\ resp'.items = {ct_out}
                  /\ Absent(db, ct_out.id)
                  /\ ct_out.nome = req[r].ct_in.nome
                  /\ ct_out.endereco = req[r].ct_in.endereco
                  /\ get(db', ct_out.id) =
                        [status |-> HTTP_200_OK, items |-> {ct_out}]]_vars

\* C5 witness: a post was answered 201 and its record joined another one
C5_Witness ==
    /\ resp.op = "post" /\ resp.status = HTTP_201_CREATED
    /\ resp.items \subseteq db
    /\ Cardinality(db) = 2

\* C6: a Delete answered 204 leaves its id without a record and removes no
\* other record, and a Get of an id that answers 404 keeps answering 404
\* until a Create draws that id.
C6_DeleteThenGet ==
    /\ [][\A r \in Reqs :
            (DeleteCommit(r) /\ resp'.status = HTTP_204_NO_CONTENT) =>
               /\ get(db', req[r].id).status = HTTP_404_NOT_FOUND
               /\ \A row \in db : row.id # req[r].id => row \in db']_vars
    /\ [][\A id \in Ids :
            (get(db, id).status = HTTP_404_NOT_FOUND /\
             ~ (\E r \in Reqs : Post(r) /\ uuid4 = id))
            => get(db', id).status = HTTP_404_NOT_FOUND]_vars

\* C6 witness: a delete was answered 204 and another record is still stored
C6_Witness ==
    /\ resp.op = "delete" /\ resp.status = HTTP_204_NO_CONTENT
    /\ db # {}
    /\ issued = MaxId

\* the records a List with the given nome is claimed to select
Claimed(table, nome) ==
    IF nome = {} THEN table ELSE { row \in table : {row.nome} = nome }

\* C7 (as claimed): a List never changes the table; without a filter it
\* selects every stored record and with nome=X, for every X, exactly the
\* records whose nome is X; its page is drawn from the selected records.
C7_ListExactMatch ==
    [][\A r \in Reqs : \A nome \in NomeFilters :
         \A limit \in 1 .. MaxLimit : \A offset \in 0 .. MaxOffset :
            Query(r, nome, limit, offset) =>
               /\ db' = db
               /\ resp'.total = Cardinality(Claimed(db, nome))
               /\ resp'.items \subseteq Claimed(db, nome)]_vars

\* two requests race for the nome n: each is about to commit a write of n,
\* n is not in use, and a patch among them still has its record stored
Racing(r1, r2, n) ==
    /\ r1 # r2
    /\ n \in Pending(r1) /\ n \in Pending(r2)
    /\ ~ NomeUsed(db, n)
    /\ \A r \in {r1, r2} : req[r].op = "patch" => Present(db, req[r].id)

SameRecord(r1, r2) ==
    req[r1].op = "patch" /\ req[r2].op = "patch" /\ req[r1].id = req[r2].id

C9_PatchDuplicate ==
    [][\A r \in Reqs :
         (/\ PatchCommit(r)
          /\ Present(db, req[r].id)
          /\ "nome" \in DOMAIN req[r].ct_up
          /\ \E row \in db : row.id # req[r].id /\ row.nome = req[r].ct_up["nome"])
         => (resp'.op = "patch" /\ resp'.status = HTTP_303_SEE_OTHER /\
             db' = db)]_vars

\* C10: an id gets a record only by a Create answered 201 and loses it only
\* by the commit of a Delete; no step of Get, List or Patch changes which
\* ids have a record, whatever was committed since the Patch looked up.
C10_AbsentPresent ==
    [][\A id \in Ids :
         /\ (Absent(db, id) /\ Present(db', id)) =>
               (\E r \in Reqs : Post(r) /\ resp'.status = HTTP_201_CREATED)
         /\ (Present(db, id) /\ Absent(db', id)) =>
               (\E r \in Reqs : DeleteCommit(r) /\ req[r].id = id)
         /\ (\E r \in Reqs : PatchCommit(r)) =>
               (Present(db', id) <=> Present(db, id))]_vars

\* C10 witness: a patch that looked up a record committed after the record
\* was deleted, and the record stayed absent
C10_Witness ==
    /\ resp.op = "patch" /\ resp.status = 500
    /\ \E id \in Ids : Absent(db, id) /\ id <= issued

====
